---- MODULE Spec2Model ----
(***************************************************************************)
(* The transactional ledger of q3 (accounts, transactions, debit / credit  *)
(* / update / create) as a state machine.                                  *)
(*                                                                         *)
(* State: the committed contents of the two tables (accounts, txlog), the  *)
(* row locks of the accounts table, and for every worker (one database     *)
(* session per request, db/session.py get_db) the position of the call it  *)
(* is running.                                                             *)
(*                                                                         *)
(* Storage is the engine configured in db/session.py: PostgreSQL           *)
(* (core/config.py DATABASE_URI) at isolation level REPEATABLE READ.  A    *)
(* transaction's snapshot is taken when its first statement starts; a      *)
(* SELECT ... FOR UPDATE or UPDATE waits for the row lock and then fails   *)
(* with a serialization error when the row was changed by a transaction    *)
(* that committed after the snapshot.                                      *)
(*                                                                         *)
(* Money is counted in tenths of a cent (10 = 0.01), so that the           *)
(* Numeric(18, 2) columns really round what the Decimal request fields     *)
(* carry.                                                                  *)
(***************************************************************************)
EXTENDS Integers, Sequences, FiniteSets, TLC

VARIABLES
    accounts,   \* committed rows of table accounts: [id -> row]
    txlog,      \* committed rows of table transactions, in commit order
    lock,       \* row lock of each account id: the worker holding it, or 0
    pc,         \* position of each worker in its call
    req,        \* the request each worker is serving
    snap,       \* the account row in the worker's transaction snapshot
    attempts,   \* attempts the retry wrapper has started for the call
    last,       \* history: how the step just taken ended an attempt, if it did
    ncalls,     \* calls issued so far
    faults,     \* storage failures injected so far
    nSucc,      \* history: successful mutating operations per account
    opened,     \* history: the balance each account was created with
    \* the rate limiters of q4 (rate_limiter.py)
    now,            \* time.time(), in clock ticks
    user_requests,  \* SlidingWindowRateLimiter: user_id -> deque of timestamps
    user_buckets,   \* TokenBucketRateLimiter: user_id -> (tokens, last_refill)
    rl_lock,        \* SlidingWindowRateLimiter.lock: the thread holding it, or 0
    tpc,            \* position of each thread in its is_allowed call
    frame,          \* user_id and current_time of each thread's call
    granted,        \* history: the timestamps of each user's allowed requests
    denied,         \* history: how many requests of each user were refused
    answer,         \* history: the is_allowed call that the step just taken ended
    issued,         \* is_allowed calls issued so far
    \* the example banking API of q4 (banking_api_example.py)
    users,          \* the mock user database: user_id -> premium, balance
    transactions,   \* the mock transaction store, in the order of insertion
    hpc,            \* position of each request handler in create_transaction
    hreq,           \* user_id, amount and loaded balance of each handler
    response,       \* history: the response the step just taken returned
    nreq            \* requests received so far

vars == <<accounts, txlog, lock, pc, req, snap, attempts, last, ncalls,
          faults, nSucc, opened, now, user_requests, user_buckets, rl_lock,
          tpc, frame, granted, denied, answer, issued, users, transactions,
          hpc, hreq, response, nreq>>

\* the variables of the example banking API
bank == <<users, transactions, hpc, hreq, response, nreq>>

\* the variables of the rate limiters
limiter == <<now, user_requests, user_buckets, rl_lock, tpc, frame, granted,
             denied, answer, issued>>

\* the variables of the ledger
ledger == <<accounts, txlog, lock, pc, req, snap, attempts, last, ncalls,
            faults, nSucc, opened>>

\* ---------------------------------------------------------------- bounds
NumProcs == 2
MaxAccounts == 1
MaxCalls == 4
MaxFaults == 1
\* the accounts a run about several accounts may create
PairAccounts == 2

Procs == 1..NumProcs
AcctIds == 1..MaxAccounts
PairIds == 1..PairAccounts
\* currencies of debit and credit requests, and of the accounts created
Currencies == {"USD", "EUR"}
AccountCurrencies == {"USD"}
Numbers == {"ACC-1", "ACC-2"}
\* request amounts, in tenths of a cent: 0.004 and 0.02
Amounts == {4, 20}
\* initial balances: 0.00 and 0.01
InitialBalances == {0, 10}
\* balances of the account a batch of debits is launched against
BatchBalances == {0, 10, 20, 40}
None == "None"

\* ------------------------------------------------------------ constants
MAX_TRANSACTION_RETRIES == 3

\* ------------------------------------------------------------ the tables
NoRow == [id |-> 0, account_number |-> None, account_name |-> None,
          balance |-> 0, currency |-> None, is_active |-> FALSE, version |-> 0]

NoTxn == [id |-> 0, account_id |-> 0, transaction_type |-> None, amount |-> 0,
          currency |-> None, status |-> None, reference |-> None]

NoReq == [op |-> None, account_id |-> 0, amount |-> 0, currency |-> None,
          account_name |-> None, is_active |-> None, reference |-> None]

\* the end of an attempt: the worker, the outcome, where it was decided, the
\* attempts made so far, the request, the transaction returned, the committed
\* account row right before (pre) and right after (post) the step, and the
\* number of transaction records the step added to the log
NoEvent == [proc |-> 0, outcome |-> None, stage |-> None, attempts |-> 0,
            req |-> NoReq, txn |-> NoTxn, pre |-> NoRow, post |-> NoRow,
            added |-> 0]

\* the row of account a in a table state, NoRow when there is none
RowOf(tbl, a) == IF a \in DOMAIN tbl THEN tbl[a] ELSE NoRow

\* Numeric(precision=18, scale=2): a stored value is rounded to whole cents,
\* half away from zero
Quantize(x) ==
    IF x >= 0 THEN ((x + 5) \div 10) * 10 ELSE 0 - (((0 - x) + 5) \div 10) * 10

\* CheckConstraint('balance >= 0')
check_balance_non_negative(b) == b >= 0

\* the row create_account inserts: is_active and version take the column
\* defaults True and 1, the balance rounds to the column's scale
NewAccount(id, number, currency, initial_balance) ==
    [id |-> id, account_number |-> number, account_name |-> "A",
     balance |-> Quantize(initial_balance), currency |-> currency,
     is_active |-> TRUE, version |-> 1]


\* ------------------------------------------- the service's pure pieces

\* debit_account / credit_account: "if not account"
NotFound(row) == row = NoRow

\* the is_active test left out of the checks
Inactive_Skipped(row) == FALSE

\* "if not account.is_active"
Inactive(row) == ~row.is_active

\* the currency comparison left out of the checks
CurrencyMismatch_Skipped(row, r) == FALSE

\* "if account.currency != debit_data.currency"
CurrencyMismatch(row, r) == row.currency # r.currency

\* a funds comparison that also refuses a debit of the whole balance
InsufficientFunds_Inclusive(row, r) == row.balance <= r.amount

\* the funds comparison the wrong way round
InsufficientFunds_Reversed(row, r) == r.amount < row.balance

\* debit_account: "if account.balance < debit_data.amount"
InsufficientFunds(row, r) == row.balance < r.amount

\* the checks of debit_account with the funds and currency tests first
DebitChecks_FundsFirst(row, r) ==
    IF NotFound(row) THEN "NotFound"
    ELSE IF InsufficientFunds(row, r) THEN "InsufficientFunds"
    ELSE IF CurrencyMismatch(row, r) THEN "CurrencyMismatch"
    ELSE IF Inactive(row) THEN "Inactive"
    ELSE "ok"

\* the precondition checks of debit_account in the order of the code; "ok"
\* when the attempt goes on to record the transaction
DebitChecks(row, r) ==
    IF NotFound(row) THEN "NotFound"
    ELSE IF Inactive(row) THEN "Inactive"
    ELSE IF CurrencyMismatch(row, r) THEN "CurrencyMismatch"
    ELSE IF InsufficientFunds(row, r) THEN "InsufficientFunds"
    ELSE "ok"

\* the precondition checks of credit_account
CreditChecks(row, r) ==
    IF NotFound(row) THEN "NotFound"
    ELSE IF Inactive(row) THEN "Inactive"
    ELSE IF CurrencyMismatch(row, r) THEN "CurrencyMismatch"
    ELSE "ok"

Checks(row, r) == IF r.op = "debit" THEN DebitChecks(row, r) ELSE CreditChecks(row, r)

\* a record that does not carry the currency it is passed
record_transaction_OtherCurrency(id, ttype, account_id, amount, currency, reference) ==
    [id |-> id, account_id |-> account_id, transaction_type |-> ttype,
     amount |-> amount, currency |-> IF currency = "USD" THEN "EUR" ELSE "USD",
     status |-> "PENDING", reference |-> reference]

\* _record_transaction: a new Transaction in status PENDING, added to the
\* session (the uuid4 id is modelled by the position in the log)
record_transaction(id, ttype, account_id, amount, currency, reference) ==
    [id |-> id, account_id |-> account_id, transaction_type |-> ttype,
     amount |-> amount, currency |-> currency, status |-> "PENDING",
     reference |-> reference]

\* a debit that writes the balance and leaves the version alone
DebitApply_NoVersion(row, amount) == [row EXCEPT !.balance = @ - amount]

\* "account.balance -= amount; account.version += 1"
DebitApply(row, amount) ==
    [row EXCEPT !.balance = @ - amount, !.version = @ + 1]

\* a credit whose attempt is run twice within one transaction
CreditApply_Twice(row, amount) ==
    [row EXCEPT !.balance = @ + amount + amount, !.version = @ + 2]

\* "account.balance += amount; account.version += 1"
CreditApply(row, amount) ==
    [row EXCEPT !.balance = @ + amount, !.version = @ + 1]

Apply(row, r) ==
    IF r.op = "debit" THEN DebitApply(row, r.amount) ELSE CreditApply(row, r.amount)

TypeOf(r) == IF r.op = "debit" THEN "DEBIT" ELSE "CREDIT"

\* the Transaction committed as it was recorded, without the assignment of
\* COMPLETED
SessionTxn_Pending(row, r) ==
    record_transaction(Len(txlog) + 1, TypeOf(r), row.id, r.amount, row.currency,
                       r.reference)

\* the Transaction committed with status REVERSED
SessionTxn_Reversed(row, r) ==
    [record_transaction(Len(txlog) + 1, TypeOf(r), row.id, r.amount, row.currency,
                        r.reference)
        EXCEPT !.status = "REVERSED"]

\* the Transaction of the attempt as the session holds it at db.commit():
\* recorded PENDING, then "transaction.status = TransactionStatus.COMPLETED"
SessionTxn(row, r) ==
    [record_transaction(Len(txlog) + 1, TypeOf(r), row.id, r.amount, row.currency,
                        r.reference)
        EXCEPT !.status = "COMPLETED"]

\* an INSERT that replaces the newest row of the table
db_add_Replaces(log, t) ==
    IF log = <<>> THEN <<t>> ELSE [log EXCEPT ![Len(log)] = t]

\* db.add(transaction), flushed at the commit: an INSERT of a new row into
\* table transactions (a fresh uuid4 primary key); no row there is touched
db_add(log, t) == Append(log, t)

\* what the flush writes: the columns round to two decimals
StoredRow(row) == [row EXCEPT !.balance = Quantize(@)]
StoredTxn(t) == [t EXCEPT !.amount = Quantize(@)]

\* a transactions table with a unique index on reference
ReferenceViolation_Unique(log, reference) ==
    \E i \in DOMAIN log : log[i].reference = reference

\* reference = Column(String(50), nullable=True): the column has no unique
\* index (only the plain idx_transaction_reference), so the INSERT of a
\* transaction is never refused for its reference
ReferenceViolation(log, reference) == FALSE

\* an attempt that writes the new balance whatever the checks and the table
\* constraint say (the funds check and the constraint each keep the balance
\* from going negative, so that leaving out one of them alone shows nothing)
AttemptOutcome_Unguarded(row, r) ==
    [raised |-> None, kind |-> "Success", row |-> StoredRow(Apply(row, r))]

\* one attempt on the locked row when the storage layer is healthy: the
\* exception it raises (None when it commits), the outcome the caller is
\* told, and the row it leaves committed.  The flush of the new balance is
\* refused by the table constraint with an IntegrityError.
AttemptOutcome(row, r) ==
    LET new == StoredRow(Apply(row, r)) IN
    IF Checks(row, r) # "ok"
    THEN [raised |-> "HTTPException", kind |-> Checks(row, r), row |-> row]
    ELSE IF \/ ~check_balance_non_negative(new.balance)
            \/ ReferenceViolation(txlog, r.reference)
    THEN [raised |-> "SQLAlchemyError", kind |-> "DatabaseError", row |-> row]
    ELSE [raised |-> None, kind |-> "Success", row |-> new]

\* a rollback that leaves the writes of the transaction in the table
rollback_keeps_writes(committed, working) == working

\* Session.rollback(): the writes of the transaction are discarded, the
\* table is what was committed
rollback(committed, working) == committed

\* the except clauses of debit_account / credit_account: an HTTPException is
\* re-raised, a SQLAlchemyError leaves the function as HTTPException(500)
except_clause(raised) ==
    IF raised = "SQLAlchemyError" THEN "HTTPException" ELSE raised

\* a retry condition that matches every exception
retry_if_exception_type_Any(exc) == TRUE

\* @retry(retry=retry_if_exception_type(SQLAlchemyError))
retry_if_exception_type(exc) == exc = "SQLAlchemyError"

\* @retry(stop=stop_after_attempt(settings.MAX_TRANSACTION_RETRIES))
stop_after_attempt(n) == n >= MAX_TRANSACTION_RETRIES

\* an isolation level that lets a transaction overwrite a row changed since
\* its snapshot (READ COMMITTED)
SerializationFailure_Off(snapshot, current) == FALSE

\* isolation_level="REPEATABLE READ": a locking read or a write of a row
\* that a transaction committed after the snapshot fails
SerializationFailure(snapshot, current) == snapshot # current

\* a row lock that waits for every lock of the table (a table lock)
LockFree_Table(lk, a) == \A b \in DOMAIN lk : lk[b] = 0

\* with_for_update() on "Account.id == account_id": the statement waits only
\* for the lock of the row it selects
LockFree(lk, a) == lk[a] = 0

\* a commit or rollback that keeps the row locks of the transaction
ReleaseLocks_Keeps(lk, p) == lk

\* db.commit() / db.rollback() end the transaction of worker p: the row locks
\* it holds are released
ReleaseLocks(lk, p) == [a \in DOMAIN lk |-> IF lk[a] = p THEN 0 ELSE lk[a]]

\* ------------------------------------------- the rate limiters: state
\* threads calling SlidingWindowRateLimiter.is_allowed
NumThreads == 3
\* the clock stops after so many ticks
MaxTime == 4
\* is_allowed calls of a run, per limiter
MaxIssued == 4
MaxBucketCalls == 6
\* resolution of the clock: a tick of time.time() is 1 / TicksPerSecond s,
\* and tokens are counted in 1 / TicksPerSecond of a token
TicksPerSecond == 2
\* SlidingWindowRateLimiter(max_requests, window_seconds)
max_requests == 2
window_seconds == 1
\* TokenBucketRateLimiter(bucket_capacity, refill_rate)
bucket_capacity == 2
refill_rate == 1

Threads == 1..NumThreads
Users == {"alice", "bob"}

\* a thread outside is_allowed
NoFrame == [user_id |-> None, current_time |-> 0, fresh |-> FALSE, before |-> <<>>]

\* no call has just returned
NoAnswer == [thread |-> 0, user_id |-> None, current_time |-> 0,
             fresh |-> FALSE, before |-> <<>>, result |-> FALSE]

\* "if user_id not in d: d[user_id] = v"
setdefault(d, k, v) ==
    [u \in DOMAIN d \cup {k} |-> IF u \in DOMAIN d THEN d[u] ELSE v]

\* __init__ of both limiters: empty dictionaries, the lock free
LimiterInit ==
    /\ now = 0
    /\ user_requests = [u \in {} |-> <<>>]
    /\ user_buckets = [u \in {} |-> <<>>]
    /\ rl_lock = 0
    /\ tpc = [t \in Threads |-> "idle"]
    /\ frame = [t \in Threads |-> NoFrame]
    /\ granted = [u \in Users |-> <<>>]
    /\ denied = [u \in Users |-> 0]
    /\ answer = NoAnswer
    /\ issued = 0

\* ------------------------------------------ the example banking API: state
\* request handler threads of the Flask server
NumHandlers == 2
\* requests of a run
MaxRequests == 3

Handlers == 1..NumHandlers

\* a handler between requests
NoHandlerReq == [user_id |-> None, amount |-> 0, loaded |-> 0]

\* no response has just been returned
NoResponse == [handler |-> 0, user_id |-> None, amount |-> 0, status |-> 0,
               error |-> None, new_balance |-> 0]

\* the module-level state: the two users of the mock database (Alice Smith,
\* not premium, 10000.00; Bob Jones, premium, 25000.00) and an empty
\* transaction store
BankInit ==
    /\ users = [u \in Users |->
                  IF u = "alice" THEN [premium |-> FALSE, balance |-> 10000]
                                 ELSE [premium |-> TRUE, balance |-> 25000]]
    /\ transactions = <<>>
    /\ hpc = [h \in Handlers |-> "idle"]
    /\ hreq = [h \in Handlers |-> NoHandlerReq]
    /\ response = NoResponse
    /\ nreq = 0

\* ---------------------------------------------------------------- Init
\* empty tables, every worker idle
Init ==
    /\ accounts = <<>>
    /\ txlog = <<>>
    /\ lock = [a \in AcctIds |-> 0]
    /\ pc = [p \in Procs |-> "idle"]
    /\ req = [p \in Procs |-> NoReq]
    /\ snap = [p \in Procs |-> NoRow]
    /\ attempts = [p \in Procs |-> 0]
    /\ last = NoEvent
    /\ ncalls = 0
    /\ faults = 0
    /\ nSucc = [a \in AcctIds |-> 0]
    /\ opened = [a \in AcctIds |-> 0]
    /\ LimiterInit /\ BankInit

\* the event of an attempt of request r by worker p ending in this step
Event(p, r, n, outcome, stage, txn) ==
    [proc |-> p, outcome |-> outcome, stage |-> stage, attempts |-> n,
     req |-> r, txn |-> txn,
     pre |-> RowOf(accounts, r.account_id),
     post |-> RowOf(accounts', r.account_id),
     added |-> Len(txlog') - Len(txlog)]

\* ------------------------------------------------------- create_account
\* an accounts table without the unique index
UniqueViolation_Off(tbl, number) == FALSE

\* Column(String(20), unique=True): the INSERT of a row whose account_number
\* another row has is refused with IntegrityError
UniqueViolation(tbl, number) ==
    \E a \in DOMAIN tbl : tbl[a].account_number = number

\* AccountService.create_account: INSERT and commit in one step; the unique
\* index on account_number makes a duplicate fail with IntegrityError, which
\* the service rolls back and reports as 409
create_account(number, currency, initial_balance) ==
    LET r == [NoReq EXCEPT !.op = "create", !.account_id = Len(accounts) + 1,
                           !.amount = initial_balance, !.currency = currency,
                           !.account_name = number]
        row == NewAccount(Len(accounts) + 1, number, currency, initial_balance)
    IN
    /\ ncalls < MaxCalls
    /\ ncalls' = ncalls + 1
    /\ UNCHANGED <<limiter, bank>>
    /\ UNCHANGED <<txlog, lock, pc, req, snap, attempts, faults, nSucc>>
    /\ IF UniqueViolation(accounts, number)
       THEN /\ accounts' = rollback(accounts, Append(accounts, row))
            /\ last' = Event(0, r, 1, "Conflict", "commit", NoTxn)
            /\ UNCHANGED opened
       ELSE /\ Len(accounts) + 1 \in DOMAIN lock
            /\ accounts' = Append(accounts, row)
            /\ opened' = [opened EXCEPT ![row.id] = row.balance]
            /\ last' = Event(0, r, 1, "Created", "commit", NoTxn)

\* ------------------------------------------- debit_account, credit_account
\* a worker receives a debit request: the retry wrapper starts the first
\* attempt, whose SELECT ... FOR UPDATE is the first statement of the
\* session's transaction, so that the snapshot is taken now
debit_account(p, a, amount, currency) ==
    /\ pc[p] = "idle"
    /\ ncalls < MaxCalls
    /\ ncalls' = ncalls + 1
    /\ pc' = [pc EXCEPT ![p] = "select"]
    /\ req' = [req EXCEPT ![p] = [NoReq EXCEPT !.op = "debit", !.account_id = a,
                                   !.amount = amount, !.currency = currency]]
    /\ attempts' = [attempts EXCEPT ![p] = 1]
    /\ snap' = [snap EXCEPT ![p] = RowOf(accounts, a)]
    /\ last' = NoEvent
    /\ UNCHANGED <<limiter, bank>>
    /\ UNCHANGED <<accounts, txlog, lock, faults, nSucc, opened>>

\* a worker receives a credit request: the retry wrapper starts the first
\* attempt, whose SELECT ... FOR UPDATE is the first statement of the
\* session's transaction, so that the snapshot is taken now
credit_account(p, a, amount, currency) ==
    /\ pc[p] = "idle"
    /\ ncalls < MaxCalls
    /\ ncalls' = ncalls + 1
    /\ pc' = [pc EXCEPT ![p] = "select"]
    /\ req' = [req EXCEPT ![p] = [NoReq EXCEPT !.op = "credit", !.account_id = a,
                                   !.amount = amount, !.currency = currency]]
    /\ attempts' = [attempts EXCEPT ![p] = 1]
    /\ snap' = [snap EXCEPT ![p] = RowOf(accounts, a)]
    /\ last' = NoEvent
    /\ UNCHANGED <<limiter, bank>>
    /\ UNCHANGED <<accounts, txlog, lock, faults, nSucc, opened>>

\* the call leaves the worker: the caller gets the outcome, the session is
\* closed (get_db)
Return(p, outcome, stage, txn) ==
    /\ pc' = [pc EXCEPT ![p] = "idle"]
    /\ last' = Event(p, req[p], attempts[p], outcome, stage, txn)
    /\ req' = [req EXCEPT ![p] = NoReq]
    /\ attempts' = [attempts EXCEPT ![p] = 0]
    /\ snap' = [snap EXCEPT ![p] = NoRow]

\* an attempt ends with an exception: the except clause has rolled back, and
\* the retry wrapper decides between another attempt and the caller (who gets
\* tenacity's RetryError when the attempts of a retried exception run out)
Raise(p, raised, kind, stage) ==
    LET exc == except_clause(raised) IN
    IF retry_if_exception_type(exc)
    THEN IF stop_after_attempt(attempts[p])
         THEN Return(p, "RetryError", stage, NoTxn)
         ELSE \* the next attempt: a new transaction, a new snapshot
              /\ pc' = [pc EXCEPT ![p] = "select"]
              /\ last' = Event(p, req[p], attempts[p], kind, stage, NoTxn)
              /\ attempts' = [attempts EXCEPT ![p] = @ + 1]
              /\ snap' = [snap EXCEPT ![p] = RowOf(accounts', req[p].account_id)]
              /\ UNCHANGED req
    ELSE Return(p, kind, stage, NoTxn)

\* "db.query(Account).filter(...).with_for_update().first()"
Select(p) ==
    LET a == req[p].account_id IN
    /\ pc[p] = "select"
    /\ accounts' = rollback(accounts, accounts)
    /\ txlog' = rollback(txlog, txlog)
    /\ \/ \* the statement fails in the storage layer
          /\ faults < MaxFaults
          /\ faults' = faults + 1
          /\ Raise(p, "SQLAlchemyError", "DatabaseError", "select")
          /\ UNCHANGED lock
       \/ \* no such row in the snapshot: HTTPException(404)
          /\ NotFound(snap[p])
          /\ Raise(p, "HTTPException", Checks(snap[p], req[p]), "select")
          /\ UNCHANGED <<lock, faults>>
       \/ \* the row is there: wait for its lock, then read it
          /\ ~NotFound(snap[p])
          /\ LockFree(lock, a)
          /\ IF SerializationFailure(snap[p], accounts[a])
             THEN /\ Raise(p, "SQLAlchemyError", "DatabaseError", "select")
                  /\ UNCHANGED lock
             ELSE /\ lock' = [lock EXCEPT ![a] = p]
                  /\ pc' = [pc EXCEPT ![p] = "locked"]
                  /\ last' = NoEvent
                  /\ UNCHANGED <<req, snap, attempts>>
          /\ UNCHANGED faults
    /\ UNCHANGED <<limiter, bank>>
    /\ UNCHANGED <<ncalls, nSucc, opened>>

\* the rest of the attempt, with the row locked: the checks, the PENDING
\* transaction, the balance and version update, COMPLETED, db.commit() and
\* db.refresh(transaction); or one of the except clauses
Execute(p) ==
    LET a == req[p].account_id
        row == accounts[a]
        out == AttemptOutcome(row, req[p])
        flushedRow == StoredRow(Apply(row, req[p]))
        workAccounts == [accounts EXCEPT ![a] = flushedRow]
        workLog == db_add(txlog, StoredTxn(SessionTxn(row, req[p])))
    IN
    /\ pc[p] = "locked"
    /\ lock' = ReleaseLocks(lock, p)
    /\ \/ \* a business rule fails: HTTPException, rollback, re-raise
          /\ out.raised = "HTTPException"
          /\ accounts' = rollback(accounts, accounts)
          /\ txlog' = rollback(txlog, txlog)
          /\ Raise(p, out.raised, out.kind, "checks")
          /\ UNCHANGED <<faults, nSucc>>
       \/ \* the commit goes through, unless the table constraint refuses
          /\ out.raised # "HTTPException"
          /\ IF out.raised = None
             THEN /\ accounts' = [accounts EXCEPT ![a] = out.row]
                  /\ txlog' = workLog
                  /\ Return(p, out.kind, "commit", workLog[Len(workLog)])
                  /\ nSucc' = [nSucc EXCEPT ![a] = @ + 1]
             ELSE /\ accounts' = rollback(accounts, workAccounts)
                  /\ txlog' = rollback(txlog, workLog)
                  /\ Raise(p, out.raised, out.kind, "commit")
                  /\ UNCHANGED nSucc
          /\ UNCHANGED faults
       \/ \* the storage layer fails at the flush or the commit
          /\ out.raised # "HTTPException"
          /\ faults < MaxFaults
          /\ faults' = faults + 1
          /\ accounts' = rollback(accounts, workAccounts)
          /\ txlog' = rollback(txlog, workLog)
          /\ Raise(p, "SQLAlchemyError", "DatabaseError", "commit")
          /\ UNCHANGED nSucc
    /\ UNCHANGED <<limiter, bank>>
    /\ UNCHANGED <<ncalls, opened>>

\* ------------------------------------------------------- update_account
\* AccountService.update_account up to db.commit(): get_account reads the row
\* without locking it (NotFound when there is none) and the session object
\* takes the new name, flag and version
update_account(p, a, account_name, is_active) ==
    LET r == [NoReq EXCEPT !.op = "update", !.account_id = a, !.account_name = account_name,
                           !.is_active = is_active]
    IN
    /\ pc[p] = "idle"
    /\ ncalls < MaxCalls
    /\ ncalls' = ncalls + 1
    /\ UNCHANGED <<limiter, bank>>
    /\ UNCHANGED <<accounts, txlog, lock, faults, nSucc, opened>>
    /\ IF NotFound(RowOf(accounts, a))
       THEN /\ last' = Event(p, r, 1, "NotFound", "select", NoTxn)
            /\ UNCHANGED <<pc, req, attempts, snap>>
       ELSE /\ pc' = [pc EXCEPT ![p] = "update"]
            /\ req' = [req EXCEPT ![p] = r]
            /\ attempts' = [attempts EXCEPT ![p] = 1]
            /\ snap' = [snap EXCEPT ![p] = RowOf(accounts, a)]
            /\ last' = NoEvent

\* an update that writes account_name whether it was supplied or not
UpdateApply_Overwrites(row, r) ==
    [row EXCEPT !.account_name = r.account_name,
                !.is_active = IF r.is_active # None THEN r.is_active = "True" ELSE @,
                !.version = @ + 1]

\* the row update_account writes: the fields supplied (is_active comes as
\* None, "True" or "False"), version + 1
UpdateApply(row, r) ==
    [row EXCEPT !.account_name = IF r.account_name # None THEN r.account_name ELSE @,
                !.is_active = IF r.is_active # None THEN r.is_active = "True" ELSE @,
                !.version = @ + 1]

\* update_account's db.commit(): the UPDATE waits for the row lock, fails when
\* the row changed since the snapshot, and commits otherwise; an error that
\* is no IntegrityError leaves the function as it is
update_commit(p) ==
    LET a == req[p].account_id
        workAccounts == [accounts EXCEPT ![a] = UpdateApply(snap[p], req[p])]
    IN
    /\ pc[p] = "update"
    /\ LockFree(lock, a)
    /\ UNCHANGED <<limiter, bank>>
    /\ UNCHANGED <<txlog, lock, ncalls, opened>>
    /\ \/ \* the storage layer fails at the flush or the commit
          /\ faults < MaxFaults
          /\ faults' = faults + 1
          /\ accounts' = rollback(accounts, workAccounts)
          /\ Return(p, "DatabaseError", "commit", NoTxn)
          /\ UNCHANGED nSucc
       \/ /\ UNCHANGED faults
          /\ IF SerializationFailure(snap[p], accounts[a])
             THEN /\ accounts' = rollback(accounts, accounts)
                  /\ Return(p, "DatabaseError", "commit", NoTxn)
                  /\ UNCHANGED nSucc
             ELSE /\ accounts' = workAccounts
                  /\ Return(p, "Success", "commit", NoTxn)
                  /\ nSucc' = [nSucc EXCEPT ![a] = @ + 1]

\* ------------------------------------------------------------ the system
Next ==
    \/ \E n \in Numbers, c \in AccountCurrencies, b \in InitialBalances :
          create_account(n, c, b)
    \/ \E p \in Procs, a \in DOMAIN lock, m \in Amounts, c \in Currencies :
          debit_account(p, a, m, c)
    \/ \E p \in Procs, a \in DOMAIN lock, m \in Amounts, c \in Currencies :
          credit_account(p, a, m, c)
    \/ \E p \in Procs, a \in DOMAIN lock, n \in {None, "B"}, f \in {None, "True", "False"} :
          update_account(p, a, n, f)
    \/ \E p \in Procs : Select(p)
    \/ \E p \in Procs : Execute(p)
    \/ \E p \in Procs : update_commit(p)

Spec == Init /\ [][Next]_vars

\* ------------------------------------------------ several accounts
\* the same system with room for PairAccounts accounts (the account ids of a
\* run are the domain of lock)
InitPair ==
    /\ accounts = <<>>
    /\ txlog = <<>>
    /\ lock = [a \in PairIds |-> 0]
    /\ pc = [p \in Procs |-> "idle"]
    /\ req = [p \in Procs |-> NoReq]
    /\ snap = [p \in Procs |-> NoRow]
    /\ attempts = [p \in Procs |-> 0]
    /\ last = NoEvent
    /\ ncalls = 0
    /\ faults = 0
    /\ nSucc = [a \in PairIds |-> 0]
    /\ opened = [a \in PairIds |-> 0]
    /\ LimiterInit /\ BankInit

SpecPair == InitPair /\ [][Next]_vars

\* ------------------------------------------------ a batch of debits
\* the reference every request of a batch carries (Optional[str],
\* max_length=50); the requests of the other runs carry none
BatchReference == "REF-1"

\* K = NumProcs debit calls of one amount against one active account, in the
\* account's currency, each received by its own worker and none started yet;
\* no storage failure is injected
InitBatch ==
    \E b \in BatchBalances, m \in Amounts, c \in AccountCurrencies :
        LET row == NewAccount(1, "ACC-1", c, b) IN
        /\ accounts = <<row>>
        /\ txlog = <<>>
        /\ lock = [a \in AcctIds |-> 0]
        /\ pc = [p \in Procs |-> "received"]
        /\ req = [p \in Procs |-> [NoReq EXCEPT !.op = "debit", !.account_id = 1,
                                                !.amount = m, !.currency = c,
                                                !.reference = BatchReference]]
        /\ snap = [p \in Procs |-> NoRow]
        /\ attempts = [p \in Procs |-> 0]
        /\ last = NoEvent
        /\ ncalls = MaxCalls
        /\ faults = MaxFaults
        /\ nSucc = [a \in AcctIds |-> 0]
        /\ opened = [a \in AcctIds |-> IF a = 1 THEN row.balance ELSE 0]
        /\ LimiterInit /\ BankInit

\* the retry wrapper starts the first attempt of a received call: the
\* snapshot of its transaction is taken at its SELECT ... FOR UPDATE
AttemptStart(p) ==
    /\ pc[p] = "received"
    /\ pc' = [pc EXCEPT ![p] = "select"]
    /\ attempts' = [attempts EXCEPT ![p] = 1]
    /\ snap' = [snap EXCEPT ![p] = RowOf(accounts, req[p].account_id)]
    /\ last' = NoEvent
    /\ UNCHANGED <<limiter, bank>>
    /\ UNCHANGED <<accounts, txlog, lock, req, ncalls, faults, nSucc, opened>>

NextBatch ==
    \/ \E p \in Procs : AttemptStart(p)
    \/ \E p \in Procs : Select(p)
    \/ \E p \in Procs : Execute(p)

SpecBatch == InitBatch /\ [][NextBatch]_vars

\* fair scheduling of the batch: a worker that can start its attempt, run its
\* SELECT ... FOR UPDATE (the row lock is free) or finish its attempt
\* eventually does
FairBatch ==
    \A p \in Procs :
        /\ WF_vars(AttemptStart(p))
        /\ WF_vars(Select(p))
        /\ WF_vars(Execute(p))

SpecBatchFair == InitBatch /\ [][NextBatch]_vars /\ FairBatch

\* ------------------------------------------- _update_transaction_status
\* TransactionStatus
Statuses == {"PENDING", "COMPLETED", "FAILED", "REVERSED"}

\* a ledger in which an account opened with 0.00 has been credited 0.02
\* twice: two COMPLETED transactions in the log
InitStatus ==
    /\ accounts = <<[NewAccount(1, "ACC-1", "USD", 40) EXCEPT !.version = 3]>>
    /\ txlog = <<[id |-> 1, account_id |-> 1, transaction_type |-> "CREDIT",
                  amount |-> 20, currency |-> "USD", status |-> "COMPLETED",
                  reference |-> None],
                 [id |-> 2, account_id |-> 1, transaction_type |-> "CREDIT",
                  amount |-> 20, currency |-> "USD", status |-> "COMPLETED",
                  reference |-> None]>>
    /\ lock = [a \in AcctIds |-> 0]
    /\ pc = [p \in Procs |-> "idle"]
    /\ req = [p \in Procs |-> NoReq]
    /\ snap = [p \in Procs |-> NoRow]
    /\ attempts = [p \in Procs |-> 0]
    /\ last = NoEvent
    /\ ncalls = 3
    /\ faults = 0
    /\ nSucc = [a \in AcctIds |-> IF a = 1 THEN 2 ELSE 0]
    /\ opened = [a \in AcctIds |-> 0]
    /\ LimiterInit /\ BankInit

\* TransactionService._update_transaction_status(db, transaction_id, status,
\* commit): the transaction is selected for update and, when there is one,
\* "transaction.status = status" whatever the status it has; with commit the
\* change is committed, without it the change stays in the session, which
\* nothing commits (the function has no caller).  For an unknown id the
\* "raise HTTPException(status_code=status.HTTP_404_NOT_FOUND, ...)" reads
\* the attribute off the status parameter, which shadows fastapi's status
\* module, and ends in AttributeError.
update_transaction_status(transaction_id, status, commit) ==
    LET found == transaction_id \in DOMAIN txlog
        t == [txlog[transaction_id] EXCEPT !.status = status]
        work == [txlog EXCEPT ![transaction_id] = t]
        r == [NoReq EXCEPT !.op = "set_status",
                           !.account_id = IF found THEN t.account_id ELSE 0]
    IN
    /\ UNCHANGED <<limiter, bank>>
    /\ UNCHANGED <<accounts, lock, pc, req, snap, attempts, ncalls, faults,
                   nSucc, opened>>
    /\ IF ~found
       THEN /\ txlog' = txlog
            /\ last' = Event(0, r, 1, "AttributeError", "select", NoTxn)
       ELSE /\ txlog' = IF commit THEN work ELSE rollback(txlog, work)
            /\ last' = Event(0, r, 1, "Success",
                             IF commit THEN "commit" ELSE "session", t)

NextStatus ==
    \E id \in 1..(Len(txlog) + 1), st \in Statuses, c \in BOOLEAN :
        update_transaction_status(id, st, c)

SpecStatus == InitStatus /\ [][NextStatus]_vars

\* -------------------------------------------- amounts of half a cent
\* request amounts with a third decimal of 5: 0.005 and 0.015
HalfCentAmounts == {5, 15}

\* create_account, debit_account and credit_account with such amounts, in
\* the currency of the account
NextHalfCent ==
    \/ \E n \in Numbers, c \in AccountCurrencies, b \in InitialBalances :
          create_account(n, c, b)
    \/ \E p \in Procs, a \in DOMAIN lock, m \in HalfCentAmounts, c \in AccountCurrencies :
          debit_account(p, a, m, c)
    \/ \E p \in Procs, a \in DOMAIN lock, m \in HalfCentAmounts, c \in AccountCurrencies :
          credit_account(p, a, m, c)
    \/ \E p \in Procs : Select(p)
    \/ \E p \in Procs : Execute(p)

SpecHalfCent == Init /\ [][NextHalfCent]_vars

\* ------------------------------------------- debits and credits only
\* concurrent debit_account and credit_account calls on the accounts that
\* create_account has made; no update_account
NextTransfers ==
    \/ \E n \in Numbers, c \in AccountCurrencies, b \in InitialBalances :
          create_account(n, c, b)
    \/ \E p \in Procs, a \in DOMAIN lock, m \in Amounts, c \in Currencies :
          debit_account(p, a, m, c)
    \/ \E p \in Procs, a \in DOMAIN lock, m \in Amounts, c \in Currencies :
          credit_account(p, a, m, c)
    \/ \E p \in Procs : Select(p)
    \/ \E p \in Procs : Execute(p)

SpecTransfers == Init /\ [][NextTransfers]_vars

\* =================================================== the rate limiters
\* time.time() advances
Tick ==
    /\ now < MaxTime
    /\ now' = now + 1
    /\ answer' = NoAnswer
    /\ UNCHANGED <<user_requests, user_buckets, rl_lock, tpc, frame, granted,
                   denied, issued>>
    /\ UNCHANGED <<ledger, bank>>

\* ------------------------------------------ SlidingWindowRateLimiter
\* a lock that excludes nobody
WithLock_NoExclusion(owner) == TRUE

\* "with self.lock:" can be entered when no thread holds the lock
WithLock(owner) == owner = 0

\* a window that starts one tick early
window_start_Early(current_time) ==
    current_time - window_seconds * TicksPerSecond - 1

\* "window_start = current_time - self.window_seconds"
window_start(current_time) == current_time - window_seconds * TicksPerSecond

\* a timestamp at the start of the window counted as old
Expired_Inclusive(timestamp, start) == timestamp <= start

\* "self.user_requests[user_id][0] < window_start"
Expired(timestamp, start) == timestamp < start

\* _clean_old_requests: popleft() while the oldest timestamp is older than
\* the window
RECURSIVE clean_old_requests(_, _)
clean_old_requests(q, current_time) ==
    IF q # <<>> /\ Expired(Head(q), window_start(current_time))
    THEN clean_old_requests(Tail(q), current_time)
    ELSE q

\* a thread calls is_allowed(user_id) and waits for the lock
is_allowed(t, user_id) ==
    /\ tpc[t] = "idle"
    /\ issued < MaxIssued
    /\ issued' = issued + 1
    /\ tpc' = [tpc EXCEPT ![t] = "wait"]
    /\ frame' = [frame EXCEPT ![t] = [NoFrame EXCEPT !.user_id = user_id]]
    /\ answer' = NoAnswer
    /\ UNCHANGED <<now, user_requests, user_buckets, rl_lock, granted, denied>>
    /\ UNCHANGED <<ledger, bank>>

\* the thread enters "with self.lock", gives a new user an empty deque, reads
\* the clock and removes the old timestamps
Enter(t) ==
    LET u == frame[t].user_id
        d == setdefault(user_requests, u, <<>>)
    IN
    /\ tpc[t] = "wait"
    /\ WithLock(rl_lock)
    /\ rl_lock' = t
    /\ tpc' = [tpc EXCEPT ![t] = "check"]
    /\ frame' = [frame EXCEPT ![t] = [user_id |-> u, current_time |-> now,
                                       fresh |-> u \notin DOMAIN user_requests,
                                       before |-> d[u]]]
    /\ user_requests' = [d EXCEPT ![u] = clean_old_requests(d[u], now)]
    /\ answer' = NoAnswer
    /\ UNCHANGED <<now, user_buckets, granted, denied, issued>>
    /\ UNCHANGED <<ledger, bank>>

\* is_allowed returns: the lock is released, the caller has the result
Answer(t, result) ==
    LET u == frame[t].user_id IN
    /\ rl_lock' = 0
    /\ tpc' = [tpc EXCEPT ![t] = "idle"]
    /\ frame' = [frame EXCEPT ![t] = NoFrame]
    /\ answer' = [thread |-> t, user_id |-> u,
                  current_time |-> frame[t].current_time,
                  fresh |-> frame[t].fresh, before |-> frame[t].before,
                  result |-> result]
    /\ granted' = IF result
                  THEN [granted EXCEPT ![u] = Append(@, frame[t].current_time)]
                  ELSE granted
    /\ denied' = IF result THEN denied ELSE [denied EXCEPT ![u] = @ + 1]

\* a length that counts the recorded requests of all users
QueueLength_Global(d, user_id) ==
    LET RECURSIVE Total(_)
        Total(S) == IF S = {} THEN 0
                    ELSE LET v == CHOOSE x \in S : TRUE
                         IN Len(d[v]) + Total(S \ {v})
    IN Total(DOMAIN d)

\* "len(self.user_requests[user_id])"
QueueLength(d, user_id) == Len(d[user_id])

\* "if len(self.user_requests[user_id]) >= self.max_requests: return False"
Check(t) ==
    LET u == frame[t].user_id IN
    /\ tpc[t] = "check"
    /\ IF QueueLength(user_requests, u) >= max_requests
       THEN Answer(t, FALSE)
       ELSE /\ tpc' = [tpc EXCEPT ![t] = "append"]
            /\ answer' = NoAnswer
            /\ UNCHANGED <<rl_lock, frame, granted, denied>>
    /\ UNCHANGED <<now, user_requests, user_buckets, issued>>
    /\ UNCHANGED <<ledger, bank>>

\* "self.user_requests[user_id].append(current_time); return True"
AppendRequest(t) ==
    LET u == frame[t].user_id IN
    /\ tpc[t] = "append"
    /\ user_requests' =
          [user_requests EXCEPT ![u] = Append(@, frame[t].current_time)]
    /\ Answer(t, TRUE)
    /\ UNCHANGED <<now, user_buckets, issued>>
    /\ UNCHANGED <<ledger, bank>>

NextSliding ==
    \/ Tick
    \/ \E t \in Threads, u \in Users : is_allowed(t, u)
    \/ \E t \in Threads : Enter(t)
    \/ \E t \in Threads : Check(t)
    \/ \E t \in Threads : AppendRequest(t)

SpecSliding == Init /\ [][NextSliding]_vars

\* -------------------------------------------- TokenBucketRateLimiter
\* one token, in the unit tokens are counted in
Token == TicksPerSecond

\* a refill that the capacity does not bound
refill_Unbounded(tokens, time_passed) == tokens + time_passed * refill_rate

\* "min(self.bucket_capacity, tokens + time_passed * self.refill_rate)"
refill(tokens, time_passed) ==
    LET filled == tokens + time_passed * refill_rate IN
    IF filled < bucket_capacity * Token THEN filled ELSE bucket_capacity * Token

\* a refusal that restarts the refill period of the bucket
RejectBucket_Touches(d, user_id, current_time) ==
    [d EXCEPT ![user_id] = <<@[1], current_time>>]

\* "if new_tokens < 1: return False": nothing is written to the bucket
RejectBucket(d, user_id, current_time) == d

\* TokenBucketRateLimiter.is_allowed(user_id); the whole body runs under
\* self.lock, and nothing else reads or writes user_buckets
TokenBucketCall(user_id) ==
    LET current_time == now
        d == setdefault(user_buckets, user_id,
                        <<bucket_capacity * Token, current_time>>)
        tokens == d[user_id][1]
        last_refill == d[user_id][2]
        new_tokens == refill(tokens, current_time - last_refill)
        result == ~(new_tokens < Token)
    IN
    /\ issued < MaxBucketCalls
    /\ issued' = issued + 1
    /\ user_buckets' = IF result
                       THEN [d EXCEPT ![user_id] = <<new_tokens - Token, current_time>>]
                       ELSE RejectBucket(d, user_id, current_time)
    /\ answer' = [thread |-> 0, user_id |-> user_id,
                  current_time |-> current_time,
                  fresh |-> user_id \notin DOMAIN user_buckets,
                  before |-> d[user_id], result |-> result]
    /\ granted' = IF result
                  THEN [granted EXCEPT ![user_id] = Append(@, current_time)]
                  ELSE granted
    /\ denied' = IF result THEN denied ELSE [denied EXCEPT ![user_id] = @ + 1]
    /\ UNCHANGED <<now, user_requests, rl_lock, tpc, frame>>
    /\ UNCHANGED ledger

\* a call of TokenBucketRateLimiter.is_allowed from outside the banking API
TokenBucket_is_allowed(user_id) ==
    /\ TokenBucketCall(user_id)
    /\ UNCHANGED bank

NextBucket ==
    \/ Tick
    \/ \E u \in Users : TokenBucket_is_allowed(u)

SpecBucket == Init /\ [][NextBucket]_vars

\* ------------------------------------------------ both rate limiters
\* the thread of a client that calls both limiters
Caller == {1}

\* one SlidingWindowRateLimiter and one TokenBucketRateLimiter serving the
\* same users from one thread (simulate_user_behavior in
\* test_rate_limiter.py, run against either limiter)
NextLimiters ==
    \/ Tick
    \/ \E t \in Caller, u \in Users : is_allowed(t, u)
    \/ \E t \in Caller : Enter(t)
    \/ \E t \in Caller : Check(t)
    \/ \E t \in Caller : AppendRequest(t)
    \/ \E u \in Users : TokenBucket_is_allowed(u)

SpecLimiters == Init /\ [][NextLimiters]_vars

\* ============================================ the example banking API
\* the amounts of the requests: 0 (invalid), 15000.00 and 25000.00
RequestAmounts == {0, 15000, 25000}

\* the handler returns a response and is free for the next request
Respond(h, user_id, amount, status, error) ==
    /\ response' = [handler |-> h, user_id |-> user_id, amount |-> amount,
                    status |-> status, error |-> error,
                    new_balance |-> users'[user_id].balance]
    /\ hpc' = [hpc EXCEPT ![h] = "idle"]
    /\ hreq' = [hreq EXCEPT ![h] = NoHandlerReq]

\* create_transaction up to the validation of the request: a premium user's
\* request goes through premium_rate_limiter.is_allowed (429 when refused),
\* then "if amount <= 0" (400); the destination is supplied
create_transaction(h, user_id, amount) ==
    /\ hpc[h] = "idle"
    /\ nreq < MaxRequests
    /\ nreq' = nreq + 1
    /\ users[user_id].premium
    /\ TokenBucketCall(user_id)
    /\ UNCHANGED <<users, transactions>>
    /\ IF ~answer'.result
       THEN Respond(h, user_id, amount, 429, "Rate limit exceeded")
       ELSE IF amount <= 0
       THEN Respond(h, user_id, amount, 400, "Invalid amount")
       ELSE /\ hpc' = [hpc EXCEPT ![h] = "funds"]
            /\ hreq' = [hreq EXCEPT ![h] = [user_id |-> user_id,
                                             amount |-> amount, loaded |-> 0]]
            /\ response' = NoResponse

\* "if users[user_id]["balance"] < amount": 400 Insufficient funds
funds_check(h) ==
    LET r == hreq[h] IN
    /\ hpc[h] = "funds"
    /\ UNCHANGED <<users, transactions, nreq>>
    /\ IF users[r.user_id].balance < r.amount
       THEN Respond(h, r.user_id, r.amount, 400, "Insufficient funds")
       ELSE /\ hpc' = [hpc EXCEPT ![h] = "process"]
            /\ response' = NoResponse
            /\ UNCHANGED hreq
    /\ UNCHANGED <<ledger, limiter>>

\* the transaction is stored, and "users[user_id]["balance"] -= amount"
\* reads the balance
process(h) ==
    LET r == hreq[h] IN
    /\ hpc[h] = "process"
    /\ transactions' = Append(transactions,
                              [user_id |-> r.user_id, amount |-> r.amount,
                               status |-> "completed"])
    /\ hreq' = [hreq EXCEPT ![h].loaded = users[r.user_id].balance]
    /\ hpc' = [hpc EXCEPT ![h] = "store"]
    /\ response' = NoResponse
    /\ UNCHANGED <<users, nreq>>
    /\ UNCHANGED <<ledger, limiter>>

\* "users[user_id]["balance"] -= amount" writes the balance it has read,
\* less the amount
store_balance(loaded, amount) == loaded - amount

\* the balance is written and the success response returned
store(h) ==
    LET r == hreq[h] IN
    /\ hpc[h] = "store"
    /\ users' = [users EXCEPT ![r.user_id].balance =
                    store_balance(r.loaded, r.amount)]
    /\ Respond(h, r.user_id, r.amount, 200, None)
    /\ UNCHANGED <<transactions, nreq>>
    /\ UNCHANGED <<ledger, limiter>>

NextBank ==
    \/ Tick
    \/ \E h \in Handlers, u \in Users, m \in RequestAmounts :
          create_transaction(h, u, m)
    \/ \E h \in Handlers : funds_check(h)
    \/ \E h \in Handlers : process(h)
    \/ \E h \in Handlers : store(h)

SpecBank == Init /\ [][NextBank]_vars

\* ================================================================ claims

Business == {"NotFound", "Inactive", "CurrencyMismatch", "InsufficientFunds"}

\* the step just taken ended an attempt of a debit or credit call
LedgerEvent == last.req.op \in {"debit", "credit"}

\* ... and that attempt had read the account row under its lock
LockedEvent == LedgerEvent /\ last.stage \in {"checks", "commit"}

\* ----------------------------------------------------------------- C1
\* C1: in every reachable state, whatever calls were made, interleaved and
\* failed, the committed balance of every account is >= 0.
C1_BalanceNonNegative ==
    \A a \in DOMAIN accounts : accounts[a].balance >= 0

\* a debit has drained an account that held money to exactly 0
C1_Witness ==
    /\ last.req.op = "debit"
    /\ last.outcome = "Success"
    /\ last.pre.balance > 0
    /\ last.post.balance = 0

\* ----------------------------------------------------------------- C2
\* C2: when the K debits of a batch (same amount m, K * m > the initial
\* balance) have all returned, exactly floor(initial / m) of them succeeded,
\* the final balance is initial - successes * m >= 0, and every call that
\* returned did so with Success or InsufficientFunds.
C2_BatchDebits ==
    LET m == last.req.amount
        b == opened[1]
    IN /\ (last.proc # 0 /\ NumProcs * m > b)
            => last.outcome \in {"Success", "InsufficientFunds"}
       /\ ((\A p \in Procs : pc[p] = "idle") /\ NumProcs * m > b)
            => /\ nSucc[1] = b \div m
               /\ accounts[1].balance = b - nSucc[1] * m
               /\ accounts[1].balance >= 0

InFlight(p, a) == pc[p] \in {"locked", "update"} /\ req[p].account_id = a

\* C4: at most one debit, credit or update call is in flight on an account.
C4_OneInFlight ==
    \A a \in AcctIds : Cardinality({p \in Procs : InFlight(p, a)}) <= 1

\* ----------------------------------------------------------------- C5
\* C5: an attempt of debit or credit that fails in the storage layer at the
\* flush or commit, after its transaction was added, leaves the balance and
\* the version as they were and adds no record to the transaction log.
C5_StorageFailureRollsBack ==
    (LedgerEvent /\ last.outcome = "DatabaseError" /\ last.stage = "commit")
        => /\ last.post.balance = last.pre.balance
           /\ last.post.version = last.pre.version
           /\ last.added = 0
           /\ \A i \in DOMAIN txlog : txlog[i].status # "PENDING"

\* a commit of a debit that would have changed the balance has failed
C5_Witness ==
    /\ last.req.op = "debit"
    /\ last.outcome = "DatabaseError"
    /\ last.stage = "commit"
    /\ last.req.amount = 20
    /\ last.pre.balance >= 20

\* ----------------------------------------------------------------- C6
\* C6: the caller of debit or credit gets the storage failure only after
\* MAX_TRANSACTION_RETRIES attempts have failed.
C6_FailsOnlyAfterMaxAttempts ==
    (LedgerEvent /\ last.outcome = "DatabaseError" /\ pc[last.proc] = "idle")
        => last.attempts = MAX_TRANSACTION_RETRIES

\* ----------------------------------------------------------------- C7
\* C7: a debit or credit attempt that fails a business rule is the only
\* attempt of its call (the call returns with that failure), and it adds no
\* transaction record and changes no field of the account.
C7_BusinessFailureOnceNoMutation ==
    (LedgerEvent /\ last.outcome \in Business)
        => /\ pc[last.proc] = "idle"
           /\ last.attempts = 1
           /\ last.post = last.pre
           /\ last.added = 0

\* a call on an existing account has failed a business rule
C7_Witness ==
    /\ LedgerEvent
    /\ last.outcome \in Business
    /\ last.pre # NoRow

\* ----------------------------------------------------------------- C8
\* C8: a debit that succeeds returns a DEBIT transaction of the requested
\* amount in status COMPLETED, the balance has gone down by exactly the
\* amount and the version up by exactly 1.
C8_DebitExact ==
    (last.req.op = "debit" /\ last.outcome = "Success")
        => /\ last.txn.transaction_type = "DEBIT"
           /\ last.txn.amount = last.req.amount
           /\ last.txn.status = "COMPLETED"
           /\ last.post.balance = last.pre.balance - last.req.amount
           /\ last.post.version = last.pre.version + 1

\* ----------------------------------------------------------------- C9
\* C9: a debit attempt that reads, under the lock, an active account of the
\* request's currency whose balance is below the amount fails with
\* InsufficientFunds; balance and version stay and no transaction is
\* recorded.
C9_InsufficientFunds ==
    (LockedEvent /\ last.req.op = "debit" /\ last.pre.is_active
        /\ last.pre.currency = last.req.currency
        /\ last.req.amount > last.pre.balance)
        => /\ last.outcome = "InsufficientFunds"
           /\ last.post.balance = last.pre.balance
           /\ last.post.version = last.pre.version
           /\ last.added = 0

\* a debit of 0.02 was refused on an account holding 0.01
C9_Witness ==
    /\ last.req.op = "debit"
    /\ last.outcome = "InsufficientFunds"
    /\ last.req.amount = 20
    /\ last.pre.balance = 10

\* ---------------------------------------------------------------- C10
\* C10: a debit or credit attempt that reads, under the lock, an active
\* account whose currency differs from the request's fails with
\* CurrencyMismatch; balance and version stay and no transaction is recorded.
C10_CurrencyMismatch ==
    (LockedEvent /\ last.pre.is_active /\ last.pre.currency # last.req.currency)
        => /\ last.outcome = "CurrencyMismatch"
           /\ last.post.balance = last.pre.balance
           /\ last.post.version = last.pre.version
           /\ last.added = 0

\* a credit in EUR was refused on a USD account
C10_Witness ==
    /\ last.req.op = "credit"
    /\ last.outcome = "CurrencyMismatch"
    /\ last.req.currency = "EUR"
    /\ last.pre.currency = "USD"

\* ---------------------------------------------------------------- C11
\* C11: a debit or credit attempt that reads, under the lock, an account whose
\* is_active is false fails with Inactive and leaves the row and the log as
\* they were; and no step at all (of debit, credit or update) changes the
\* balance of an account that is inactive when the step is taken.
C11_InactiveRefused ==
    (last.pre # NoRow /\ ~last.pre.is_active)
        => /\ last.post.balance = last.pre.balance
           /\ LockedEvent => /\ last.outcome = "Inactive"
                              /\ last.post = last.pre
                              /\ last.added = 0

\* a debit of 0.02 in the account's currency was refused because the account
\* is inactive
C11_Witness ==
    /\ last.req.op = "debit"
    /\ last.outcome = "Inactive"
    /\ last.req.amount = 20
    /\ last.req.currency = last.pre.currency
    /\ ~last.pre.is_active

\* ---------------------------------------------------------------- C12
\* C12: a credit attempt that reads, under the lock, an active account of the
\* request's currency never fails with InsufficientFunds, and when it
\* succeeds it returns a CREDIT transaction in status COMPLETED, the balance
\* has gone up by exactly the amount and the version by exactly 1.
C12_CreditExact ==
    (LockedEvent /\ last.req.op = "credit" /\ last.pre.is_active
        /\ last.pre.currency = last.req.currency)
        => /\ last.outcome # "InsufficientFunds"
           /\ last.outcome = "Success"
                => /\ last.txn.transaction_type = "CREDIT"
                   /\ last.txn.status = "COMPLETED"
                   /\ last.post.balance = last.pre.balance + last.req.amount
                   /\ last.post.version = last.pre.version + 1

\* ---------------------------------------------------------------- C13
\* C13: an account lock is held only by a worker that is inside a debit or
\* credit attempt on that account, between its SELECT ... FOR UPDATE and its
\* commit or rollback; a worker whose call has returned or raised holds none,
\* so the lock is free for the next call.
C13_LockReleased ==
    /\ \A a \in DOMAIN lock :
          lock[a] # 0 => pc[lock[a]] = "locked" /\ req[lock[a]].account_id = a
    /\ (LockedEvent /\ pc[last.proc] = "idle")
          => \A a \in DOMAIN lock : lock[a] # last.proc

\* a debit that held the lock has ended in a storage failure, and the lock of
\* its account is free
C13_Witness ==
    /\ last.req.op = "debit"
    /\ last.outcome = "DatabaseError"
    /\ last.stage = "commit"
    /\ pc[last.proc] = "idle"
    /\ lock[last.req.account_id] = 0

\* ---------------------------------------------------------------- C14
\* C14: under fair scheduling, every debit call that waits for the account
\* lock eventually acquires it, and eventually ends with a result or an
\* error.
C14_WaiterAcquiresAndEnds ==
    \A p \in Procs :
        /\ (pc[p] = "select") ~> (pc[p] = "locked")
        /\ (pc[p] = "select") ~> (pc[p] = "idle")

\* ---------------------------------------------------------------- C15
\* C15: a debit or credit call on an account whose lock no other worker
\* holds is never blocked, whatever other locks are held: its SELECT ... FOR
\* UPDATE can run, and once it holds the lock the rest of its attempt (up to
\* the commit) can run.
C15_OtherLocksDoNotBlock ==
    \A p \in Procs :
        /\ (pc[p] = "select" /\ lock[req[p].account_id] = 0)
              => ENABLED (Select(p) /\ faults' = faults)
        /\ pc[p] = "locked" => ENABLED (Execute(p) /\ faults' = faults)

\* the locks of two different accounts are held at the same time (the second
\* was acquired while the first was held), and a call on one account has just
\* acquired its lock while the other account's lock was held
C15_Witness ==
    \E p, q \in Procs :
        /\ p # q
        /\ pc[p] = "locked" /\ pc[q] = "locked"
        /\ lock[1] = p /\ lock[2] = q

\* ---------------------------------------------------------------- C16
\* the commits that have written the row of account a: the INSERT of
\* create_account (which stores version 1) and every successful debit, credit
\* and update since
Commits(a) == 1 + nSucc[a]

C17_NoPartialOperation ==
    /\ \A i \in DOMAIN txlog : txlog[i].status # "PENDING"
    /\ LedgerEvent
         => /\ last.added \in {0, 1}
            /\ last.added = 1 <=> last.post.version = last.pre.version + 1
            /\ last.added = 1
                 => /\ last.post.balance =
                         Quantize(IF last.req.op = "debit"
                                  THEN last.pre.balance - last.req.amount
                                  ELSE last.pre.balance + last.req.amount)
                    /\ txlog[Len(txlog)] = last.txn
                    /\ last.txn.account_id = last.req.account_id
                    /\ last.txn.status = "COMPLETED"
            /\ last.added = 0 => last.post = last.pre

\* a debit of 0.02 has committed: its COMPLETED transaction is the last of
\* the log and the balance is 0.02 lower
C17_Witness ==
    /\ last.req.op = "debit"
    /\ last.added = 1
    /\ last.req.amount = 20
    /\ last.post.balance = last.pre.balance - 20
    /\ txlog[Len(txlog)].status = "COMPLETED"

\* ---------------------------------------------------------------- C18
\* C18: no two accounts have the same account_number; a create_account ends
\* with Created or Conflict, after it exactly one account has the number
\* requested, and that account is the new one exactly when the call ended
\* with Created: a call for a number that exists ends with Conflict and adds
\* no account.
C18_UniqueNumbers ==
    /\ \A a, b \in DOMAIN accounts :
          a # b => accounts[a].account_number # accounts[b].account_number
    /\ last.req.op = "create"
         => LET holders == {a \in DOMAIN accounts :
                               accounts[a].account_number = last.req.account_name}
            IN /\ last.outcome \in {"Created", "Conflict"}
               /\ Cardinality(holders) = 1
               /\ last.outcome = "Created" => holders = {last.req.account_id}
               /\ last.outcome = "Conflict"
                    => /\ last.req.account_id \notin DOMAIN accounts
                       /\ last.post = NoRow

\* with two accounts in the table, a creation under the number of one of them
\* was refused
C18_Witness ==
    /\ last.req.op = "create"
    /\ last.outcome = "Conflict"
    /\ Len(accounts) = 2

\* ---------------------------------------------------------------- C19
\* C19: update_account ends with NotFound exactly when there is no such
\* account, and then nothing changes; when it succeeds the version is 1
\* higher, account_name and is_active are the supplied values or, where none
\* was supplied, the old ones, and id, account_number, currency and balance
\* are the old ones; when it fails the row is as it was.  It never adds a
\* transaction.
C19_UpdateFrame ==
    last.req.op = "update"
        => /\ last.outcome = "NotFound" <=> last.pre = NoRow
           /\ last.outcome # "Success" => last.post = last.pre
           /\ last.added = 0
           /\ last.outcome = "Success"
                => /\ last.post.version = last.pre.version + 1
                   /\ last.post.account_name =
                         IF last.req.account_name # None
                         THEN last.req.account_name ELSE last.pre.account_name
                   /\ last.post.is_active =
                         IF last.req.is_active # None
                         THEN last.req.is_active = "True" ELSE last.pre.is_active
                   /\ last.post.id = last.pre.id
                   /\ last.post.account_number = last.pre.account_number
                   /\ last.post.currency = last.pre.currency
                   /\ last.post.balance = last.pre.balance

\* an update that supplied neither field has succeeded on an account that
\* holds money
C19_Witness ==
    /\ last.req.op = "update"
    /\ last.outcome = "Success"
    /\ last.req.account_name = None
    /\ last.req.is_active = None
    /\ last.pre.balance > 0
    /\ last.post.version = last.pre.version + 1

\* ---------------------------------------------------------------- C20
\* C20: every COMPLETED transaction of the log references an account of the
\* table, and its currency is that account's currency.
C20_TransactionCurrency ==
    \A i \in DOMAIN txlog :
        txlog[i].status = "COMPLETED"
            => /\ txlog[i].account_id \in DOMAIN accounts
               /\ txlog[i].currency = accounts[txlog[i].account_id].currency

\* the log holds a COMPLETED transaction and a request in another currency
\* than the account's has just been refused
C20_Witness ==
    /\ Len(txlog) >= 1
    /\ txlog[1].status = "COMPLETED"
    /\ LedgerEvent
    /\ last.outcome = "CurrencyMismatch"
    /\ last.req.currency # accounts[txlog[1].account_id].currency

\* ---------------------------------------------------------------- C21
\* C21: every transaction of the log has, as stored, an amount > 0.
C21_StoredAmountPositive ==
    \A i \in DOMAIN txlog : txlog[i].amount > 0

\* ---------------------------------------------------------------- C22
\* C22: no step rewrites the status of a COMPLETED, FAILED or REVERSED
\* transaction to PENDING, nor that of a COMPLETED transaction to FAILED.
C22_MonotonicStatus ==
    [][\A i \in DOMAIN txlog :
          /\ i \in DOMAIN txlog'
          /\ ~(txlog[i].status \in {"COMPLETED", "FAILED", "REVERSED"}
                  /\ txlog'[i].status = "PENDING")
          /\ ~(txlog[i].status = "COMPLETED" /\ txlog'[i].status = "FAILED")]_vars

\* ---------------------------------------------------------------- C23
\* C23: a debit attempt that reads, under the lock, an active account of the
\* request's currency with enough funds, while the log already holds a
\* COMPLETED debit of that account with the same amount and the same
\* reference, succeeds like the first: it adds a second COMPLETED
\* transaction with an id of its own and applies the amount to the balance
\* again.
C23_ReferenceNotChecked ==
    LET dup == {i \in DOMAIN txlog :
                  /\ i <= Len(txlog) - last.added
                  /\ txlog[i].status = "COMPLETED"
                  /\ txlog[i].transaction_type = "DEBIT"
                  /\ txlog[i].account_id = last.req.account_id
                  /\ txlog[i].amount = Quantize(last.req.amount)
                  /\ txlog[i].reference = last.req.reference}
    IN (LockedEvent /\ last.req.op = "debit" /\ last.req.reference # None
          /\ last.pre.is_active /\ last.pre.currency = last.req.currency
          /\ last.req.amount <= last.pre.balance /\ dup # {})
        => /\ last.outcome = "Success"
           /\ last.added = 1
           /\ last.txn.status = "COMPLETED"
           /\ last.txn.reference = last.req.reference
           /\ \A i \in dup : txlog[i].id # last.txn.id
           /\ last.post.balance = Quantize(last.pre.balance - last.req.amount)

\* the second of two debits of 0.02 with the same reference has succeeded:
\* the account opened with 0.04 is at 0.00 and the log holds both
C23_Witness ==
    /\ last.req.op = "debit"
    /\ last.outcome = "Success"
    /\ Len(txlog) = 2
    /\ txlog[1].reference = BatchReference
    /\ txlog[2].reference = BatchReference
    /\ txlog[1].amount = 20 /\ txlog[2].amount = 20
    /\ opened[1] = 40
    /\ accounts[1].balance = 0

\* ---------------------------------------------------------------- C24
\* C24: whatever create_account, update_account, debit_account and
\* credit_account calls are made, no transaction of the log and no
\* transaction returned to a caller has status REVERSED.
C24_NeverReversed ==
    /\ \A i \in DOMAIN txlog : txlog[i].status # "REVERSED"
    /\ last.txn.status # "REVERSED"

\* the log holds a credit and, after it, a debit, both COMPLETED
C24_Witness ==
    /\ Len(txlog) >= 2
    /\ txlog[1].transaction_type = "CREDIT" /\ txlog[1].status = "COMPLETED"
    /\ txlog[2].transaction_type = "DEBIT" /\ txlog[2].status = "COMPLETED"

\* ---------------------------------------------------------------- C25
\* C25: no step of create_account, update_account, debit_account or
\* credit_account (successful, failed or rolled back) removes a transaction
\* of the log or changes one of its fields; the log only grows at its end.
C25_CompletedImmutable ==
    [][\A i \in DOMAIN txlog :
          /\ i \in DOMAIN txlog'
          /\ txlog'[i] = txlog[i]]_vars

\* with a COMPLETED transaction in the log, a later debit that would have
\* changed the balance has failed at its commit and was rolled back
C25_Witness ==
    /\ Len(txlog) >= 1
    /\ txlog[1].status = "COMPLETED"
    /\ last.req.op = "debit"
    /\ last.req.amount = 20
    /\ last.outcome = "DatabaseError"
    /\ last.stage = "commit"

\* ---------------------------------------------------------------- C26
\* C26: a debit attempt that ends with a storage failure before the attempts
\* run out is followed by another attempt of the same call, which starts
\* again at the SELECT ... FOR UPDATE and reads the committed row; so a debit
\* call that a concurrent debit has left with a balance below its amount
\* ends with InsufficientFunds, and the balance is never overdrawn.
C26_RetryRevalidates ==
    LET p == last.proc IN
    /\ (last.req.op = "debit" /\ last.outcome = "DatabaseError"
           /\ last.attempts < MAX_TRANSACTION_RETRIES)
          => /\ pc[p] = "select"
             /\ attempts[p] = last.attempts + 1
             /\ snap[p] = RowOf(accounts, last.req.account_id)
    /\ (last.req.op = "debit" /\ pc[p] = "idle" /\ last.outcome # "Success"
           /\ last.post.balance < last.req.amount)
          => last.outcome = "InsufficientFunds"
    /\ \A a \in DOMAIN accounts : accounts[a].balance >= 0

\* ---------------------------------------------------------------- C27
\* C27: for every user and every time t, at most max_requests of the user's
\* allowed requests have a timestamp in [t - window_seconds, t].
C27_WindowBound ==
    \A u \in Users, t \in 0..MaxTime :
        Cardinality({i \in DOMAIN granted[u] :
                        /\ t - window_seconds * TicksPerSecond <= granted[u][i]
                        /\ granted[u][i] <= t}) <= max_requests

\* a user has filled the window, was refused, and was allowed again when
\* the window had moved on
C27_Witness ==
    \E u \in Users :
        /\ Len(granted[u]) > max_requests
        /\ denied[u] >= 1
        /\ answer.user_id = u
        /\ answer.result

\* ---------------------------------------------------------------- C28
\* C28: concurrent is_allowed calls take effect one at a time: at most one
\* thread is inside the locked block; the deque of a user holds one entry
\* per allowed call that has not left the window, in the order of the calls;
\* and while no timestamp can have left the window, of the K calls of a user
\* that have returned exactly min(K, max_requests) returned True and the
\* deque holds exactly their timestamps.
C28_ThreadSafe ==
    /\ Cardinality({t \in Threads : tpc[t] \in {"check", "append"}}) <= 1
    /\ \A u \in DOMAIN user_requests :
          LET q == user_requests[u]
              g == granted[u]
          IN /\ Len(q) <= Len(g)
             /\ q = SubSeq(g, Len(g) - Len(q) + 1, Len(g))
             /\ now <= window_seconds * TicksPerSecond
                  => LET K == Len(g) + denied[u] IN
                     /\ Len(g) = IF K < max_requests THEN K ELSE max_requests
                     /\ q = g

\* before the clock has moved, a call of a user is refused after max_requests
\* calls were allowed, while another call of the same user waits for the lock
C28_Witness ==
    /\ now = 0
    /\ answer.thread # 0
    /\ ~answer.result
    /\ Len(granted[answer.user_id]) = max_requests
    /\ user_requests[answer.user_id] = granted[answer.user_id]
    /\ \E t \in Threads :
          tpc[t] = "wait" /\ frame[t].user_id = answer.user_id

\* ---------------------------------------------------------------- C29
\* C29: a SlidingWindowRateLimiter call that finds max_requests timestamps
\* recorded is allowed when more than window_seconds have passed since the
\* oldest of them, and refused when the oldest is exactly window_seconds old.
C29_WindowExpiry ==
    LET age == answer.current_time - answer.before[1] IN
    (answer.thread # 0 /\ Len(answer.before) = max_requests)
        => /\ age > window_seconds * TicksPerSecond => answer.result
           /\ age = window_seconds * TicksPerSecond => ~answer.result

\* a user who was refused is allowed again, more than window_seconds after
\* the oldest of the max_requests recorded requests
C29_Witness ==
    /\ answer.thread # 0
    /\ answer.result
    /\ Len(answer.before) = max_requests
    /\ answer.current_time - answer.before[1] > window_seconds * TicksPerSecond
    /\ denied[answer.user_id] >= 1

\* ---------------------------------------------------------------- C30
\* C30: TokenBucketRateLimiter: the first call of a user finds a full bucket
\* (it is allowed and leaves bucket_capacity - 1 tokens); the tokens of every
\* bucket are within [0, bucket_capacity]; and between any two times t1 <= t2
\* a user is allowed at most bucket_capacity + (t2 - t1) * refill_rate
\* requests.
C30_TokenBucket ==
    /\ (answer.user_id # None /\ answer.thread = 0 /\ answer.fresh)
          => /\ answer.result
             /\ user_buckets[answer.user_id] =
                   <<bucket_capacity * Token - Token, answer.current_time>>
    /\ \A u \in DOMAIN user_buckets :
          /\ 0 <= user_buckets[u][1]
          /\ user_buckets[u][1] <= bucket_capacity * Token
    /\ \A u \in Users, t1 \in 0..MaxTime, t2 \in 0..MaxTime :
          t1 <= t2 =>
            Cardinality({i \in DOMAIN granted[u] :
                            t1 <= granted[u][i] /\ granted[u][i] <= t2}) * Token
              <= bucket_capacity * Token + (t2 - t1) * refill_rate

\* a user has emptied the bucket, was refused, and is allowed again after
\* the refill
C30_Witness ==
    /\ answer.thread = 0
    /\ answer.user_id # None
    /\ answer.result
    /\ denied[answer.user_id] >= 1
    /\ Len(granted[answer.user_id]) > bucket_capacity

\* ---------------------------------------------------------------- C31
\* C31: a debit that fails a precondition on the row it has locked reports
\* the first failing one in the order Inactive, CurrencyMismatch,
\* InsufficientFunds: Inactive whenever the account is inactive,
\* CurrencyMismatch whenever it is active and the currencies differ,
\* InsufficientFunds only when it is active and the currencies agree.
C31_ErrorPrecedence ==
    LET row == last.pre
        r == last.req
    IN (r.op = "debit" /\ last.stage = "checks" /\ last.outcome \in Business)
        => /\ ~row.is_active => last.outcome = "Inactive"
           /\ (row.is_active /\ row.currency # r.currency)
                 => last.outcome = "CurrencyMismatch"
           /\ (row.is_active /\ row.currency = r.currency)
                 => /\ last.outcome = "InsufficientFunds"
                    /\ row.balance < r.amount

\* a debit in the wrong currency and above the balance of an inactive
\* account has been refused
C31_Witness ==
    /\ last.req.op = "debit"
    /\ last.stage = "checks"
    /\ ~last.pre.is_active
    /\ last.pre.currency # last.req.currency
    /\ last.pre.balance < last.req.amount
    /\ last.outcome = "Inactive"

\* a debit in the wrong currency and above the balance of an active account
\* has been refused
C31_WitnessActive ==
    /\ last.req.op = "debit"
    /\ last.stage = "checks"
    /\ last.pre.is_active
    /\ last.pre.currency # last.req.currency
    /\ last.pre.balance < last.req.amount
    /\ last.outcome = "CurrencyMismatch"

\* ---------------------------------------------------------------- C32
\* C32: a debit on an active account in the account's currency is refused
\* with InsufficientFunds exactly when its amount is strictly greater than
\* the balance; a debit of exactly the balance is not refused by a business
\* rule, and when it commits the balance is exactly 0.
C32_DebitWholeBalance ==
    LET row == last.pre
        r == last.req
    IN (r.op = "debit" /\ last.stage \in {"checks", "commit"}
          /\ row.is_active /\ row.currency = r.currency)
        => /\ (last.outcome = "InsufficientFunds") <=> (r.amount > row.balance)
           /\ r.amount = row.balance
                 => /\ last.outcome \in {"Success", "DatabaseError"}
                    /\ last.outcome = "Success" => last.post.balance = 0

\* a debit of the whole (positive) balance has succeeded
C32_Witness ==
    /\ last.req.op = "debit"
    /\ last.outcome = "Success"
    /\ last.pre.balance > 0
    /\ last.req.amount = last.pre.balance
    /\ last.post.balance = 0
    /\ accounts[last.req.account_id].balance = 0

\* ---------------------------------------------------------------- C33
\* C33: no step (a commit of debit, credit or update, a failed or rolled
\* back attempt, with calls running concurrently) lowers the committed
\* version of an account or removes the account.
C33_VersionMonotonic ==
    [][\A a \in DOMAIN accounts :
          /\ a \in DOMAIN accounts'
          /\ accounts'[a].version >= accounts[a].version]_vars

\* an update_account that read the account before two other operations
\* committed has failed at its commit, and the version stays where they
\* left it
C33_Witness ==
    /\ last.req.op = "update"
    /\ last.outcome = "DatabaseError"
    /\ last.post.version >= 3
    /\ last.post = last.pre

\* ---------------------------------------------------------------- C34
\* the sum of the amounts of the COMPLETED transactions of type ttype on
\* account a in the first n rows of the log
RECURSIVE CompletedSum(_, _, _)
CompletedSum(a, ttype, n) ==
    IF n = 0 THEN 0
    ELSE CompletedSum(a, ttype, n - 1)
           + (IF /\ txlog[n].account_id = a
                 /\ txlog[n].transaction_type = ttype
                 /\ txlog[n].status = "COMPLETED"
              THEN txlog[n].amount ELSE 0)

\* C34: in every committed state the balance of every account is its initial
\* balance plus the amounts of its COMPLETED CREDIT transactions minus the
\* amounts of its COMPLETED DEBIT transactions.
C34_Conservation ==
    \A a \in DOMAIN accounts :
        accounts[a].balance
          = opened[a] + CompletedSum(a, "CREDIT", Len(txlog))
                      - CompletedSum(a, "DEBIT", Len(txlog))

\* ---------------------------------------------------------------- C35
\* C35: while the storage layer has not failed, every debit or credit call,
\* whatever runs concurrently, ends as it would in its turn of a serial
\* order: with Success or a business failure; on the row committed when its
\* turn came it succeeds exactly when the checks pass, and then it commits
\* that row with the delta applied and the version one higher (no update
\* is lost).
C35_SerialOutcome ==
    LET row == last.pre
        r == last.req
    IN (LedgerEvent /\ faults = 0)
        => /\ last.outcome \in Business \cup {"Success"}
           /\ last.stage \in {"checks", "commit"}
                 => /\ (last.outcome = "Success") <=> (Checks(row, r) = "ok")
                    /\ last.outcome = "Success"
                          => last.post = StoredRow(Apply(row, r))

C38_RejectionFree ==
    [][LET e == answer'
           u == e.user_id
       IN /\ (e.thread # 0 /\ ~e.result)
                => LET q == user_requests'[u] IN
                   /\ Len(q) <= Len(e.before)
                   /\ q = SubSeq(e.before, Len(e.before) - Len(q) + 1,
                                 Len(e.before))
                   /\ user_requests' = user_requests
          /\ (e.thread = 0 /\ u # None /\ ~e.result)
                => /\ user_buckets' = user_buckets
                   /\ user_buckets'[u] = e.before]_vars

\* alice has been refused by the sliding window, and bob has just been
\* refused by the token bucket
C38_Witness ==
    /\ "alice" \in DOMAIN user_requests
    /\ "alice" \notin DOMAIN user_buckets
    /\ denied["alice"] >= 1
    /\ Len(user_requests["alice"]) = max_requests
    /\ "bob" \notin DOMAIN user_requests
    /\ answer.thread = 0
    /\ answer.user_id = "bob"
    /\ ~answer.result
    /\ now > answer.before[2]

\* ---------------------------------------------------------------- C39
\* what a limiter's dictionary d stores for user v
StoredFor(d, v) == IF v \in DOMAIN d THEN <<d[v]>> ELSE <<>>

\* C39: the result of an is_allowed call for user u is determined by the
\* time of the call and what the limiter has stored for u (the deque of u's
\* timestamps, or u's tokens and last refill time), and what a limiter has
\* stored for a user changes only in a step of a call for that user; so the
\* result depends on u's own earlier requests alone.
C39_PerUser ==
    [][LET e == answer'
           u == e.user_id
       IN /\ e.thread # 0
                => (e.result <=>
                      Len(clean_old_requests(e.before, e.current_time))
                         < max_requests)
          /\ (e.thread = 0 /\ u # None)
                => (e.result <=>
                      refill(e.before[1], e.current_time - e.before[2]) >= Token)
          /\ \A v \in Users :
                /\ StoredFor(user_requests', v) # StoredFor(user_requests, v)
                      => \E t \in Threads : /\ frame[t].user_id = v
                                            /\ tpc'[t] # tpc[t]
                /\ StoredFor(user_buckets', v) # StoredFor(user_buckets, v)
                      => (e.thread = 0 /\ u = v)]_vars

\* with alice's window full and alice's bucket empty, bob's first calls are
\* allowed by both limiters
C39_Witness ==
    /\ "alice" \in DOMAIN user_requests
    /\ Len(user_requests["alice"]) = max_requests
    /\ "alice" \in DOMAIN user_buckets
    /\ user_buckets["alice"][1] < Token
    /\ "bob" \in DOMAIN user_requests
    /\ Len(user_requests["bob"]) = 1
    /\ answer.thread = 0
    /\ answer.user_id = "bob"
    /\ answer.fresh
    /\ answer.result

\* ---------------------------------------------------------------- C40
\* C40: with requests of one user handled concurrently by create_transaction,
\* the balance of no user is ever negative, and no success response reports a
\* negative new balance.
C40_BalanceNeverNegative ==
    /\ \A u \in DOMAIN users : users[u].balance >= 0
    /\ response.status = 200 => response.new_balance >= 0

====
